---- MODULE Spec2Model ----
(***************************************************************************)
(* A model of src/src/main.rs: the log reader that turns `send{...}` lines  *)
(* of the `matrix_sdk::http_client` scope into spans, tracks the smallest   *)
(* and largest timestamps, and renders one report row per span.             *)
(*                                                                          *)
(* Encodings.                                                               *)
(*   Option<T>      None is <<>>, Some(x) is <<x>>.                         *)
(*   String keys    a connection id is the sequence of its bytes, because   *)
(*                  Rust orders `String` bytewise and the BTreeMap order is *)
(*                  what the report rows follow.                            *)
(*   decimal text   a run of digits (`\d+`) is the sequence of its digits.  *)
(*   RequestId      a u32 is kept as its canonical decimal digits (no       *)
(*                  leading zero), compared numerically: the values around  *)
(*                  u32::MAX do not fit the integers of the model checker.  *)
(*   DateTime       an instant is a number of ticks; TicksPerMs ticks make  *)
(*                  one millisecond (the source has nanosecond precision    *)
(*                  and reports milliseconds).                              *)
(*   a log line     is modelled by what `find_sync.captures(&line)` gives   *)
(*                  for it: None, or the named groups.                      *)
(*   the log file   log_lines is the number of its lines; the lines         *)
(*                  themselves are chosen as they are read.                 *)
(***************************************************************************)
EXTENDS Integers, Sequences, FiniteSets

VARIABLES log_lines, pc, line, number_of_analysed_lines,
          number_of_matched_lines, smallest_start_at, largest_end_at, spans,
          output, summary

vars == <<log_lines, pc, line, number_of_analysed_lines,
          number_of_matched_lines, smallest_start_at, largest_end_at, spans,
          output, summary>>

(***************************************************************************)
(* Bounds of the model.                                                     *)
(***************************************************************************)
\* The longest log file read.
MaxLines == 3
\* The latest instant a log line carries, in ticks.
MaxTime == 3
\* Ticks per millisecond: the sub-millisecond resolution of the instants.
TicksPerMs == 2

None == <<>>
Some(x) == <<x>>

(***************************************************************************)
(* Orders of the two key types.                                             *)
(***************************************************************************)
\* The first position where two sequences differ, or 0.
FirstDiff(a, b) ==
    LET common == IF Len(a) < Len(b) THEN Len(a) ELSE Len(b)
        diff == {i \in 1..common : a[i] # b[i]}
    IN IF diff = {} THEN 0 ELSE CHOOSE i \in diff : \A j \in diff : i <= j

\* `String: Ord`: bytewise lexicographic, a proper prefix comes first.
StrLess(a, b) ==
    LET d == FirstDiff(a, b)
    IN IF d = 0 THEN Len(a) < Len(b) ELSE a[d] < b[d]

\* `u32: Ord` on canonical decimal digits: fewer digits is smaller, and among
\* equally long ones the first differing digit decides.
U32Less(a, b) ==
    IF Len(a) # Len(b) THEN Len(a) < Len(b)
    ELSE LET d == FirstDiff(a, b) IN d # 0 /\ a[d] < b[d]

(***************************************************************************)
(* Parsing and formatting.                                                  *)
(***************************************************************************)
\* The digits of u32::MAX, 4294967295.
U32MaxDigits == <<4, 2, 9, 4, 9, 6, 7, 2, 9, 5>>

\* Digits without their leading zeros ("007" is 7, "0" is 0).
RECURSIVE StripZeros(_)
StripZeros(digits) ==
    IF Len(digits) > 1 /\ digits[1] = 0 THEN StripZeros(Tail(digits)) ELSE digits

\* `str::parse::<u32>()` of a run of digits: Ok(n), or Err (None) when the
\* number is above u32::MAX.
ParseU32(digits) ==
    LET n == StripZeros(digits)
    IN IF U32Less(U32MaxDigits, n) THEN None ELSE Some(n)

\* `str::parse::<u8>()` of a run of digits, digit by digit with the checked
\* multiply-and-add of the standard library: Err (None) above u8::MAX (255).
RECURSIVE ParseU8From(_, _)
ParseU8From(acc, digits) ==
    IF digits = <<>> THEN Some(acc)
    ELSE IF acc * 10 + Head(digits) > 255 THEN None
    ELSE ParseU8From(acc * 10 + Head(digits), Tail(digits))

ParseU8(digits) == ParseU8From(0, digits)

\* `u8::to_string()`: the decimal digits, no leading zero.
RECURSIVE U8ToString(_)
U8ToString(n) ==
    IF n < 10 THEN <<n>> ELSE Append(U8ToString(n \div 10), n % 10)

\* `DateTime::parse_from_rfc3339`: the regex takes any two digits for a month;
\* the parser takes 01..12 only. Ok(instant) or Err (None).
ParseFromRfc3339(datetime) ==
    IF datetime.month \in 1..12 THEN Some(datetime.ticks) ELSE None

\* `DateTime::timestamp_millis()`: whole milliseconds since the epoch.
TimestampMillis(date_time) == date_time \div TicksPerMs

\* Milliseconds rounded away from zero: a started millisecond counts.
NumMillisecondsRoundedUp(duration) ==
    IF duration >= 0 THEN (duration + TicksPerMs - 1) \div TicksPerMs
    ELSE 0 - ((0 - duration + TicksPerMs - 1) \div TicksPerMs)

\* `TimeDelta::num_milliseconds()`: whole milliseconds, rounded towards zero.
NumMilliseconds(duration) ==
    IF duration >= 0 THEN duration \div TicksPerMs
    ELSE 0 - ((0 - duration) \div TicksPerMs)

\* `i64::saturating_sub`. Its operands are millisecond timestamps of
\* four-digit years, so the difference is far inside i64 and never saturates.
SaturatingSub(a, b) == a - b

(***************************************************************************)
(* BTreeMap: a sequence of entries [key, value] in ascending key order.     *)
(***************************************************************************)
MapHas(m, k) == \E i \in 1..Len(m) : m[i].key = k

MapGet(m, k) == m[CHOOSE i \in 1..Len(m) : m[i].key = k].value

\* `get_mut` then assignment: the value at an occupied key is replaced.
MapSet(m, k, v) ==
    [i \in 1..Len(m) |-> IF m[i].key = k THEN [key |-> k, value |-> v] ELSE m[i]]

\* `VacantEntry::insert`: the entry goes after the `before` keys smaller
\* than it.
MapInsert(m, before, k, v) ==
    SubSeq(m, 1, before) \o <<[key |-> k, value |-> v]>>
      \o SubSeq(m, before + 1, Len(m))

\* The number of keys of a map of connections that are smaller than a key.
StrRank(m, k) == Cardinality({i \in 1..Len(m) : StrLess(m[i].key, k)})

\* The number of keys of a map of requests that are smaller than a key.
U32Rank(m, k) == Cardinality({i \in 1..Len(m) : U32Less(m[i].key, k)})

(***************************************************************************)
(* The log lines read. A line is [captures |-> None] when the regex does    *)
(* not match it, and [captures |-> Some(groups)] when it does; the optional *)
(* groups request_size, status and response_size are Options.               *)
(***************************************************************************)
\* "c10" and "c2" as bytes: "c10" < "c2" as strings.
Conns == {<<99, 49, 48>>, <<99, 50>>}

\* REQ-2 and REQ-10: 2 < 10 as numbers, "10" < "2" as strings.
ReqTexts == {<<2>>, <<1, 0>>}

Times == 0..MaxTime

Groups(ticks, connection_id, request_id, method, uri, req_size, status, resp_size) ==
    [datetime |-> [month |-> 1, ticks |-> ticks],
     connection_id |-> connection_id,
     request_id |-> request_id,
     method |-> method,
     uri |-> uri,
     request_size |-> req_size,
     status |-> status,
     response_size |-> resp_size]

\* Request-start lines of every key at every instant, no optional group.
KeyTimeGroups ==
    {Groups(t, c, r, "GET", "https://a.example/x", None, None, None) :
        t \in Times, c \in Conns, r \in ReqTexts}

\* Lines of one request at one instant, with every combination of the
\* optional groups; 404 is a status above u8::MAX.
FieldGroups ==
    {Groups(1, <<99, 50>>, <<2>>, "GET", "https://a.example/x", rq, st, rs) :
        rq \in {None, Some("12")},
        st \in {None, Some(<<2, 0, 0>>), Some(<<4, 0, 4>>)},
        rs \in {None, Some("34"), Some("56")}}

\* The same request seen with another method and uri, and with its id
\* written with a leading zero.
OtherGroups ==
    {Groups(1, <<99, 50>>, <<2>>, "POST", "https://b.example/y", None, None, None),
     Groups(1, <<99, 50>>, <<0, 2>>, "GET", "https://a.example/x", None,
            Some(<<2, 0, 4>>), None)}

\* Lines the regex matches and a parser rejects: month 13, and a request id
\* of u32::MAX + 1.
RejectedGroups ==
    {[Groups(1, <<99, 50>>, <<2>>, "GET", "https://a.example/x", None, None, None)
        EXCEPT !.datetime.month = 13],
     Groups(1, <<99, 50>>, <<4, 2, 9, 4, 9, 6, 7, 2, 9, 6>>, "GET",
            "https://a.example/x", None, None, None)}

Lines ==
    {[captures |-> None]}
    \cup {[captures |-> Some(g)] :
            g \in KeyTimeGroups \cup FieldGroups \cup OtherGroups \cup RejectedGroups}

(***************************************************************************)
(* The body of the loop for one matched line.                               *)
(***************************************************************************)
\* The two parses that `expect` (a panic on Err).
ParsesOk(captures) ==
    /\ ParseFromRfc3339(captures.datetime) # None
    /\ ParseU32(captures.request_id) # None

\* The values bound from the captures of a line whose parses succeed.
Event(captures) ==
    [date_time |-> ParseFromRfc3339(captures.datetime)[1],
     connection_id |-> captures.connection_id,
     request_id |-> ParseU32(captures.request_id)[1],
     method |-> captures.method,
     uri |-> captures.uri,
     request_size |-> captures.request_size,
     response_size |-> captures.response_size,
     status |-> captures.status]

\* The tracker with its comparison the wrong way round.
ObserveSmallestFlipped(smallest, date_time) ==
    IF smallest # None
    THEN IF smallest[1] < date_time THEN Some(date_time) ELSE smallest
    ELSE Some(date_time)

ObserveSmallest(smallest, date_time) ==
    IF smallest # None
    THEN IF smallest[1] > date_time THEN Some(date_time) ELSE smallest
    ELSE Some(date_time)

\* The tracker of the largest timestamp with its comparison the wrong way
\* round.
ObserveLargestFlipped(largest, date_time) ==
    IF largest # None
    THEN IF largest[1] > date_time THEN Some(date_time) ELSE largest
    ELSE Some(date_time)

ObserveLargest(largest, date_time) ==
    IF largest # None
    THEN IF largest[1] < date_time THEN Some(date_time) ELSE largest
    ELSE Some(date_time)

\* Entry::Vacant: the span inserted for a new key.
VacantInsert(ev) ==
    [status |-> None,
     method |-> ev.method,
     uri |-> ev.uri,
     request_size |-> ev.request_size,
     response_size |-> ev.response_size,
     start_at |-> ev.date_time,
     duration |-> 0]

\* The status after an update: a status that parses replaces the old one.
UpdatedStatus(old, status) ==
    LET parsed == IF status # None THEN ParseU8(status[1]) ELSE None
    IN IF parsed # None THEN parsed ELSE old

\* An update that moves the start back to an earlier event.
OccupiedUpdateMovesStart(span, ev) ==
    LET start_at == IF ev.date_time < span.start_at THEN ev.date_time
                    ELSE span.start_at
    IN [span EXCEPT
          !.status = UpdatedStatus(@, ev.status),
          !.start_at = start_at,
          !.duration = ev.date_time - start_at,
          !.request_size = IF ev.request_size # None THEN ev.request_size ELSE @,
          !.response_size = IF ev.response_size # None THEN ev.response_size ELSE @]

\* An update that adds each delta to the duration.
OccupiedUpdateAddsDelta(span, ev) ==
    [span EXCEPT
       !.status = UpdatedStatus(@, ev.status),
       !.duration = @ + (ev.date_time - span.start_at),
       !.request_size = IF ev.request_size # None THEN ev.request_size ELSE @,
       !.response_size = IF ev.response_size # None THEN ev.response_size ELSE @]

\* An update where the last event wins, absent fields included.
OccupiedUpdateLastWins(span, ev) ==
    [span EXCEPT
       !.status = UpdatedStatus(@, ev.status),
       !.duration = ev.date_time - span.start_at,
       !.request_size = ev.request_size,
       !.response_size = ev.response_size]

\* An update that also takes the method and the uri of the event.
OccupiedUpdateTakesMethodUri(span, ev) ==
    [span EXCEPT
       !.status = UpdatedStatus(@, ev.status),
       !.method = ev.method,
       !.uri = ev.uri,
       !.duration = ev.date_time - span.start_at,
       !.request_size = IF ev.request_size # None THEN ev.request_size ELSE @,
       !.response_size = IF ev.response_size # None THEN ev.response_size ELSE @]

\* Entry::Occupied: the span of an existing key after the event.
OccupiedUpdate(span, ev) ==
    [span EXCEPT
       !.status = UpdatedStatus(@, ev.status),
       !.duration = ev.date_time - span.start_at,
       !.request_size = IF ev.request_size # None THEN ev.request_size ELSE @,
       !.response_size = IF ev.response_size # None THEN ev.response_size ELSE @]

\* `spans.insert(connection_id, default)`: the connection starts from an
\* empty map each time, which drops the spans it had.
EntryAlwaysDefault(store, connection_id) ==
    IF MapHas(store, connection_id) THEN MapSet(store, connection_id, <<>>)
    ELSE MapInsert(store, StrRank(store, connection_id), connection_id, <<>>)

\* `spans.entry(connection_id).or_default()`: the store with the connection.
EntryOrDefault(store, connection_id) ==
    IF MapHas(store, connection_id) THEN store
    ELSE MapInsert(store, StrRank(store, connection_id), connection_id, <<>>)

\* The two branches with the request ids ordered as text: "10" before "2".
RecordInConnectionTextOrder(inner, ev) ==
    IF MapHas(inner, ev.request_id)
    THEN MapSet(inner, ev.request_id,
                OccupiedUpdate(MapGet(inner, ev.request_id), ev))
    ELSE MapInsert(inner, StrRank(inner, ev.request_id), ev.request_id,
                   VacantInsert(ev))

\* The two branches on the request id, inside one connection's map.
RecordInConnection(inner, ev) ==
    IF MapHas(inner, ev.request_id)
    THEN MapSet(inner, ev.request_id,
                OccupiedUpdate(MapGet(inner, ev.request_id), ev))
    ELSE MapInsert(inner, U32Rank(inner, ev.request_id), ev.request_id,
                   VacantInsert(ev))

\* A store keyed by the request id alone: every event goes to the first
\* connection of the store.
RecordByRequestOnly(store, ev) ==
    LET outer == EntryOrDefault(store, ev.connection_id)
        first == outer[1].key
    IN MapSet(outer, first, RecordInConnection(MapGet(outer, first), ev))

\* The store after the event: the nested entry lookup and its two branches.
Record(store, ev) ==
    LET outer == EntryOrDefault(store, ev.connection_id)
        inner == MapGet(outer, ev.connection_id)
    IN MapSet(outer, ev.connection_id, RecordInConnection(inner, ev))

(***************************************************************************)
(* The report.                                                              *)
(***************************************************************************)
\* None as 0, Some(instant) as its milliseconds.
MillisOrDefault(tracked) ==
    IF tracked = None THEN 0 ELSE TimestampMillis(tracked[1])

StatusFamily(status) ==
    IF status = None THEN 0
    ELSE IF status[1] > 0 THEN status[1] \div 100 ELSE 0

\* One row; host and path come from the URL parser, which is not modelled,
\* so the row keeps the uri.
Row(connection_id, request_id, span, smallest) ==
    [connection_id |-> connection_id,
     request_id |-> request_id,
     status |-> IF span.status = None THEN <<>> ELSE U8ToString(span.status[1]),
     status_family |-> StatusFamily(span.status),
     method |-> span.method,
     uri |-> span.uri,
     request_size |-> IF span.request_size = None THEN "" ELSE span.request_size[1],
     response_size |-> IF span.response_size = None THEN "" ELSE span.response_size[1],
     start_at |-> SaturatingSub(TimestampMillis(span.start_at), smallest),
     duration |-> NumMilliseconds(span.duration)]

\* The rows of the first `n` connections, in the order of iteration.
RECURSIVE RowsUpTo(_, _, _)
RowsUpTo(store, n, smallest) ==
    IF n = 0 THEN <<>>
    ELSE RowsUpTo(store, n - 1, smallest)
           \o [i \in 1..Len(store[n].value) |->
                 Row(store[n].key, store[n].value[i].key,
                     store[n].value[i].value, smallest)]

Rows(store, smallest) == RowsUpTo(store, Len(store), smallest)

\* A report whose largest timestamp defaults to the latest instant instead
\* of zero.
ReportLargestDefaultsToLatest(store, smallest, largest) ==
    [end_at |-> SaturatingSub(IF largest = None THEN TimestampMillis(MaxTime)
                              ELSE TimestampMillis(largest[1]),
                              MillisOrDefault(smallest)),
     rows |-> Rows(store, MillisOrDefault(smallest))]

Report(store, smallest, largest) ==
    [end_at |-> SaturatingSub(MillisOrDefault(largest), MillisOrDefault(smallest)),
     rows |-> Rows(store, MillisOrDefault(smallest))]

(***************************************************************************)
(* The program.                                                             *)
(***************************************************************************)
Init ==
    /\ log_lines \in 0..MaxLines
    /\ pc = "reading"
    /\ line = None
    /\ number_of_analysed_lines = 0
    /\ number_of_matched_lines = 0
    /\ smallest_start_at = None
    /\ largest_end_at = None
    /\ spans = <<>>
    /\ output = None
    /\ summary = None

\* A skipped line that is counted as matched.
SkipLineCountedAsMatch(l) ==
    /\ pc = "reading"
    /\ number_of_analysed_lines < log_lines
    /\ l.captures = None
    /\ line' = Some(l)
    /\ number_of_analysed_lines' = number_of_analysed_lines + 1
    /\ number_of_matched_lines' = number_of_matched_lines + 1
    /\ UNCHANGED <<log_lines, pc, smallest_start_at, largest_end_at, spans,
                   output, summary>>

\* A line the regex does not match.
SkipLine(l) ==
    /\ pc = "reading"
    /\ number_of_analysed_lines < log_lines
    /\ l.captures = None
    /\ line' = Some(l)
    /\ number_of_analysed_lines' = number_of_analysed_lines + 1
    /\ UNCHANGED <<log_lines, pc, number_of_matched_lines, smallest_start_at,
                   largest_end_at, spans, output, summary>>

\* A recorded line that the lines-matched counter misses.
RecordLineUncounted(l) ==
    /\ pc = "reading"
    /\ number_of_analysed_lines < log_lines
    /\ l.captures # None
    /\ ParsesOk(l.captures[1])
    /\ line' = Some(l)
    /\ number_of_analysed_lines' = number_of_analysed_lines + 1
    /\ LET ev == Event(l.captures[1])
       IN /\ smallest_start_at' = ObserveSmallest(smallest_start_at, ev.date_time)
          /\ largest_end_at' = ObserveLargest(largest_end_at, ev.date_time)
          /\ spans' = Record(spans, ev)
    /\ UNCHANGED <<log_lines, pc, number_of_matched_lines, output, summary>>

\* A matched line whose datetime and request id parse.
RecordLine(l) ==
    /\ pc = "reading"
    /\ number_of_analysed_lines < log_lines
    /\ l.captures # None
    /\ ParsesOk(l.captures[1])
    /\ line' = Some(l)
    /\ number_of_analysed_lines' = number_of_analysed_lines + 1
    /\ number_of_matched_lines' = number_of_matched_lines + 1
    /\ LET ev == Event(l.captures[1])
       IN /\ smallest_start_at' = ObserveSmallest(smallest_start_at, ev.date_time)
          /\ largest_end_at' = ObserveLargest(largest_end_at, ev.date_time)
          /\ spans' = Record(spans, ev)
    /\ UNCHANGED <<log_lines, pc, output, summary>>

\* A matched line whose datetime or request id does not parse: `expect`
\* panics, after both counters were incremented.
PanicLine(l) ==
    /\ pc = "reading"
    /\ number_of_analysed_lines < log_lines
    /\ l.captures # None
    /\ ~ParsesOk(l.captures[1])
    /\ line' = Some(l)
    /\ number_of_analysed_lines' = number_of_analysed_lines + 1
    /\ number_of_matched_lines' = number_of_matched_lines + 1
    /\ pc' = "panicked"
    /\ UNCHANGED <<log_lines, smallest_start_at, largest_end_at, spans,
                   output, summary>>

\* A read error that leaves the report of the lines read so far behind.
ReadErrorAfterWrite ==
    /\ pc = "reading"
    /\ number_of_analysed_lines < log_lines
    /\ output' = Some(Report(spans, smallest_start_at, largest_end_at))
    /\ pc' = "panicked"
    /\ UNCHANGED <<log_lines, line, number_of_analysed_lines,
                   number_of_matched_lines, smallest_start_at, largest_end_at,
                   spans, summary>>

\* The reader fails on a line (bytes that are not UTF-8): a panic.
ReadError ==
    /\ pc = "reading"
    /\ number_of_analysed_lines < log_lines
    /\ pc' = "panicked"
    /\ UNCHANGED <<log_lines, line, number_of_analysed_lines,
                   number_of_matched_lines, smallest_start_at, largest_end_at,
                   spans, output, summary>>

\* The end of the file: the report is written and the summary printed.
Finish ==
    /\ pc = "reading"
    /\ number_of_analysed_lines = log_lines
    /\ output' = Some(Report(spans, smallest_start_at, largest_end_at))
    /\ summary' = Some([analysed |-> number_of_analysed_lines,
                        matched |-> number_of_matched_lines])
    /\ pc' = "done"
    /\ UNCHANGED <<log_lines, line, number_of_analysed_lines,
                   number_of_matched_lines, smallest_start_at, largest_end_at,
                   spans>>

Next ==
    \/ \E l \in Lines : SkipLine(l)
    \/ \E l \in Lines : RecordLine(l)
    \/ \E l \in Lines : PanicLine(l)
    \/ ReadError
    \/ Finish

Spec == Init /\ [][Next]_vars

\* The program is one sequential thread that never waits: as long as it has a
\* next step (a line to read, or the end of the file), it takes one.
LiveSpec == Spec /\ WF_vars(Next)

(***************************************************************************)
(* What the properties below speak of.                                      *)
(***************************************************************************)
\* The keys <<connection id, request id>> of the spans of a store.
SpanKeys(store) ==
    UNION {{<<store[i].key, store[i].value[j].key>> :
               j \in 1..Len(store[i].value)} : i \in 1..Len(store)}

HasSpan(store, k) == k \in SpanKeys(store)

SpanAt(store, k) == MapGet(MapGet(store, k[1]), k[2])

\* The number a run of digits writes.
RECURSIVE DigitsValue(_)
DigitsValue(digits) ==
    IF digits = <<>> THEN 0
    ELSE DigitsValue(SubSeq(digits, 1, Len(digits) - 1)) * 10 + digits[Len(digits)]

\* This step read a line.
ReadStep == number_of_analysed_lines' = number_of_analysed_lines + 1

\* This step read a matched line and recorded its event.
RecordStep == ReadStep /\ pc' = "reading" /\ line'[1].captures # None

\* The event and the key of the line this step recorded.
StepEvent == Event(line'[1].captures[1])

StepKey == <<StepEvent.connection_id, StepEvent.request_id>>

\* The last line read was matched and recorded: its event and its key.
LastRecorded ==
    /\ line # None
    /\ line[1].captures # None
    /\ ParsesOk(line[1].captures[1])

LastEvent == Event(line[1].captures[1])

LastKey == <<LastEvent.connection_id, LastEvent.request_id>>

OptionalFields == {"status", "request_size", "response_size"}

\* The report of the current store.
CurrentReport == Report(spans, smallest_start_at, largest_end_at)

RowKey(row) == <<row.connection_id, row.request_id>>

\* Ascending order of the keys: the connection as a string, then the request
\* id as a number.
KeyBefore(j, k) ==
    \/ StrLess(j[1], k[1])
    \/ j[1] = k[1] /\ DigitsValue(j[2]) < DigitsValue(k[2])

RowsAscending(rows) ==
    \A i \in 1..Len(rows) : \A j \in 1..Len(rows) :
        i < j => KeyBefore(RowKey(rows[i]), RowKey(rows[j]))

(***************************************************************************)
(* C1. The start timestamp of a span is the timestamp of the event that     *)
(* created it, and no later step changes it: neither an event for the same  *)
(* key (a duplicate, or one with an earlier timestamp) nor any other step.  *)
(***************************************************************************)
C1_StartAtIsFirstAndFixed ==
    [][/\ \A k \in SpanKeys(spans) :
             /\ HasSpan(spans', k)
             /\ SpanAt(spans', k).start_at = SpanAt(spans, k).start_at
       /\ RecordStep /\ ~HasSpan(spans, StepKey) =>
             /\ HasSpan(spans', StepKey)
             /\ SpanAt(spans', StepKey).start_at = StepEvent.date_time]_vars

\* An event earlier than the start of its span was recorded, at the third line.
C1_Witness ==
    /\ LastRecorded
    /\ number_of_matched_lines = 3
    /\ HasSpan(spans, LastKey)
    /\ LastEvent.date_time < SpanAt(spans, LastKey).start_at

(***************************************************************************)
(* C2. After an event is recorded the duration of its span is the event's   *)
(* timestamp minus the span's start (zero when the event created the span,  *)
(* not negative when the event is not earlier than the last one of the key),*)
(* and the durations of the other spans are as they were: a duration is     *)
(* last event minus start, not a sum of deltas.                             *)
(***************************************************************************)
C2_DurationIsLastMinusStart ==
    [][/\ \A k \in SpanKeys(spans) :
             ~(RecordStep /\ StepKey = k) =>
                 SpanAt(spans', k).duration = SpanAt(spans, k).duration
       /\ RecordStep =>
             /\ SpanAt(spans', StepKey).duration
                  = StepEvent.date_time - SpanAt(spans', StepKey).start_at
             /\ ~HasSpan(spans, StepKey) => SpanAt(spans', StepKey).duration = 0
             /\ (/\ HasSpan(spans, StepKey)
                 /\ SpanAt(spans, StepKey).duration >= 0
                 /\ StepEvent.date_time >= SpanAt(spans, StepKey).start_at
                                             + SpanAt(spans, StepKey).duration)
                => SpanAt(spans', StepKey).duration >= 0]_vars

\* Three events of one key, the last one later than the second: the span
\* started at 0, and its duration is that of the last event.
C2_Witness ==
    /\ LastRecorded
    /\ number_of_matched_lines = 3
    /\ SpanKeys(spans) = {LastKey}
    /\ SpanAt(spans, LastKey).start_at = 0
    /\ LastEvent.date_time = 3
    /\ SpanAt(spans, LastKey).duration = 3

(***************************************************************************)
(* C3. status, request_size and response_size are fill-in-only: a field of  *)
(* a span that holds a value keeps it through every step that is not an     *)
(* event of that key supplying the field, and a field changes only in a     *)
(* step that records an event of that key supplying it.                     *)
(***************************************************************************)
C3_OptionalFieldsFillInOnly ==
    [][\A k \in SpanKeys(spans) : \A f \in OptionalFields :
          LET supplied == RecordStep /\ StepKey = k /\ StepEvent[f] # None
          IN /\ HasSpan(spans', k)
             /\ (SpanAt(spans, k)[f] # None /\ ~supplied)
                   => SpanAt(spans', k)[f] = SpanAt(spans, k)[f]
             /\ SpanAt(spans', k)[f] # SpanAt(spans, k)[f] => supplied]_vars

\* An event without any optional field was recorded for a span that holds
\* all three.
C3_Witness ==
    /\ LastRecorded
    /\ HasSpan(spans, LastKey)
    /\ \A f \in OptionalFields :
          LastEvent[f] = None /\ SpanAt(spans, LastKey)[f] # None

(***************************************************************************)
(* C4. The event that creates a span stores every field it carries: the     *)
(* new span has the event's status (one that fits the status type), its     *)
(* request_size and its response_size.                                      *)
(***************************************************************************)
C4_CreationStoresEveryField ==
    [][RecordStep /\ ~HasSpan(spans, StepKey) =>
          /\ SpanAt(spans', StepKey).request_size = StepEvent.request_size
          /\ SpanAt(spans', StepKey).response_size = StepEvent.response_size
          /\ (StepEvent.status # None /\ ParseU8(StepEvent.status[1]) # None)
                => SpanAt(spans', StepKey).status = ParseU8(StepEvent.status[1])]_vars

(***************************************************************************)
(* C5. An update event that carries a status of one to three digits         *)
(* overwrites the status of the span with that number.                      *)
(***************************************************************************)
C5_UpdateOverwritesStatus ==
    [][(/\ RecordStep
        /\ HasSpan(spans, StepKey)
        /\ StepEvent.status # None
        /\ Len(StepEvent.status[1]) \in 1..3)
          => SpanAt(spans', StepKey).status
               = Some(DigitsValue(StepEvent.status[1]))]_vars

(***************************************************************************)
(* C6. A matched line whose datetime or request id does not parse is a      *)
(* non-match: the lines-read counter goes up by one, the lines-matched      *)
(* counter, the store and the tracked timestamps stay, and reading goes on. *)
(***************************************************************************)
C6_ParseFailureIsNonMatch ==
    [][(/\ ReadStep
        /\ line'[1].captures # None
        /\ ~ParsesOk(line'[1].captures[1]))
          => /\ number_of_matched_lines' = number_of_matched_lines
             /\ spans' = spans
             /\ smallest_start_at' = smallest_start_at
             /\ largest_end_at' = largest_end_at
             /\ pc' = "reading"]_vars

(***************************************************************************)
(* C7. The rows of the report are in ascending order of (connection id as   *)
(* a string, request id as a number), and their keys are the keys of the    *)
(* events recorded, whatever the order the events came in: a step adds the  *)
(* key of the event it records and no other. The report written is the      *)
(* report of the store.                                                     *)
(***************************************************************************)
C7_RowsAscendingByKey ==
    [][LET rows == Rows(spans, MillisOrDefault(smallest_start_at))
           rowsAfter == Rows(spans', MillisOrDefault(smallest_start_at'))
           keys == {RowKey(rows[i]) : i \in 1..Len(rows)}
           keysAfter == {RowKey(rowsAfter[i]) : i \in 1..Len(rowsAfter)}
       IN /\ RowsAscending(rowsAfter)
          /\ Len(rowsAfter) = Cardinality(keysAfter)
          /\ keysAfter = keys \cup (IF RecordStep THEN {StepKey} ELSE {})
          /\ pc' = "done" => output'[1].rows = rowsAfter]_vars

\* A report of three rows, (c10, 2), (c10, 10), (c2, 2), whose first row is
\* the span of the last line read.
C7_Witness ==
    /\ pc = "done"
    /\ LastRecorded
    /\ Len(output[1].rows) = 3
    /\ RowKey(output[1].rows[1]) = LastKey
    /\ [i \in 1..3 |-> RowKey(output[1].rows[i])]
         = << <<(<<99, 49, 48>>), <<2>>>>, <<(<<99, 49, 48>>), <<1, 0>>>>,
              <<(<<99, 50>>), <<2>>>> >>

(***************************************************************************)
(* C8. In the report of every store, each row's normalized start offset is  *)
(* at least 0 and at most the total timeline duration; the report written   *)
(* is that report.                                                          *)
(***************************************************************************)
C8_StartOffsetWithinTimeline ==
    /\ \A i \in 1..Len(CurrentReport.rows) :
          /\ 0 <= CurrentReport.rows[i].start_at
          /\ CurrentReport.rows[i].start_at <= CurrentReport.end_at
    /\ pc = "done" => output = Some(CurrentReport)

\* A written report whose timeline is 1 ms long, with a row at offset 0 and
\* a row at offset 1, the smallest timestamp not being a whole millisecond.
C8_Witness ==
    /\ pc = "done"
    /\ output[1].end_at = 1
    /\ smallest_start_at = Some(1)
    /\ \E i, j \in 1..Len(output[1].rows) :
          output[1].rows[i].start_at = 0 /\ output[1].rows[j].start_at = 1

(***************************************************************************)
(* C9. A span is identified by (connection id, request id): recording an    *)
(* event leaves every span of another key as it was, and when its key is    *)
(* new it adds one span of that key, even if the request id is already      *)
(* there under another connection.                                          *)
(***************************************************************************)
C9_OtherSpansUnchanged ==
    [][RecordStep =>
          /\ \A k \in SpanKeys(spans) \ {StepKey} :
                HasSpan(spans', k) /\ SpanAt(spans', k) = SpanAt(spans, k)
          /\ SpanKeys(spans') = SpanKeys(spans) \cup {StepKey}]_vars

\* Request 2 has a span under c10 and, created by the last line, another
\* one under c2; the two differ.
C9_Witness ==
    /\ LastRecorded
    /\ LastKey = << <<99, 50>>, <<2>> >>
    /\ HasSpan(spans, << <<99, 49, 48>>, <<2>> >>)
    /\ SpanAt(spans, LastKey).duration = 0
    /\ SpanAt(spans, << <<99, 49, 48>>, <<2>> >>).duration > 0
    /\ SpanAt(spans, << <<99, 49, 48>>, <<2>> >>).start_at
         # SpanAt(spans, LastKey).start_at

(***************************************************************************)
(* C10. Recording is idempotent: recording the event just recorded once     *)
(* more leaves the store as it is.                                          *)
(***************************************************************************)
C10_RecordingTwiceIsRecordingOnce ==
    [][RecordStep /\ line' = line => spans' = spans]_vars

(***************************************************************************)
(* C11. The method and the uri of a span are those of the event that        *)
(* created it, and no later step changes them, not even an event of the     *)
(* same key that carries another method or uri.                             *)
(***************************************************************************)
C11_MethodAndUriFixedAtCreation ==
    [][/\ \A k \in SpanKeys(spans) :
             /\ HasSpan(spans', k)
             /\ SpanAt(spans', k).method = SpanAt(spans, k).method
             /\ SpanAt(spans', k).uri = SpanAt(spans, k).uri
       /\ RecordStep /\ ~HasSpan(spans, StepKey) =>
             /\ SpanAt(spans', StepKey).method = StepEvent.method
             /\ SpanAt(spans', StepKey).uri = StepEvent.uri]_vars

\* The last event recorded carries another method and another uri than the
\* span of its key.
C11_Witness ==
    /\ LastRecorded
    /\ HasSpan(spans, LastKey)
    /\ LastEvent.method # SpanAt(spans, LastKey).method
    /\ LastEvent.uri # SpanAt(spans, LastKey).uri

(***************************************************************************)
(* C12. As long as no line has matched (an empty input included), nothing   *)
(* is tracked and both bounds default to zero, the report has a total       *)
(* timeline duration of 0 and no row, and at the end of the file the run    *)
(* can complete: once it has completed, that report is the one written and  *)
(* the summary is printed.                                                  *)
(***************************************************************************)
C12_EmptyReportWithoutMatch ==
    number_of_matched_lines = 0 =>
        /\ smallest_start_at = None /\ largest_end_at = None
        /\ MillisOrDefault(smallest_start_at) = 0
        /\ MillisOrDefault(largest_end_at) = 0
        /\ spans = <<>>
        /\ CurrentReport = [end_at |-> 0, rows |-> <<>>]
        /\ pc = "reading" /\ number_of_analysed_lines = log_lines
              => ENABLED Finish
        /\ pc = "done" =>
              /\ output = Some([end_at |-> 0, rows |-> <<>>])
              /\ summary = Some([analysed |-> number_of_analysed_lines,
                                 matched |-> 0])

\* A completed run over two lines, none of them matched.
C12_Witness ==
    /\ pc = "done"
    /\ number_of_analysed_lines = 2
    /\ number_of_matched_lines = 0
    /\ output = Some([end_at |-> 0, rows |-> <<>>])

\* The row of a key among the rows of a report.
RowOf(rows, k) == rows[CHOOSE i \in 1..Len(rows) : RowKey(rows[i]) = k]

(***************************************************************************)
(* C13. In the report of every store, the status family of a row is the     *)
(* status of its span divided by 100, rounded down, and 0 when the span has *)
(* no status or a status of 0; and once an event with status 200 has been   *)
(* recorded for a key, the row of that key shows status 200 and family 2.   *)
(***************************************************************************)
C13_StatusFamilyOfReceivedStatus ==
    [][LET rowsAfter == Rows(spans', MillisOrDefault(smallest_start_at'))
       IN /\ \A k \in SpanKeys(spans') :
                RowOf(rowsAfter, k).status_family
                  = IF SpanAt(spans', k).status = None THEN 0
                    ELSE IF SpanAt(spans', k).status[1] <= 0 THEN 0
                    ELSE SpanAt(spans', k).status[1] \div 100
          /\ RecordStep /\ StepEvent.status = Some(<<2, 0, 0>>) =>
                /\ RowOf(rowsAfter, StepKey).status = <<2, 0, 0>>
                /\ RowOf(rowsAfter, StepKey).status_family = 2]_vars

(***************************************************************************)
(* C14. Reading a line the regex does not match changes the lines-read      *)
(* counter, which goes up by one, and nothing else: the store, the tracked  *)
(* timestamps and the lines-matched counter stay, nothing is written, and   *)
(* the run goes on reading.                                                 *)
(***************************************************************************)
C14_NonMatchChangesOnlyLinesRead ==
    [][ReadStep /\ line'[1].captures = None =>
          /\ spans' = spans
          /\ smallest_start_at' = smallest_start_at
          /\ largest_end_at' = largest_end_at
          /\ number_of_matched_lines' = number_of_matched_lines
          /\ output' = output /\ summary' = summary
          /\ pc = "reading" /\ pc' = "reading"]_vars

\* A line that does not match was read after two recorded ones.
C14_Witness ==
    /\ pc = "reading"
    /\ line = Some([captures |-> None])
    /\ number_of_analysed_lines = 3
    /\ number_of_matched_lines = 2
    /\ spans # <<>>

(***************************************************************************)
(* C15. Spans are never deleted: a key of the store stays in it through     *)
(* every step, and a step adds the key of the event it records and no       *)
(* other, so the keys of the store are the keys of the events recorded.     *)
(* The report written has one row for each key of the store, and no more.   *)
(***************************************************************************)
C15_SpansKeptOneRowPerKey ==
    [][/\ SpanKeys(spans) \subseteq SpanKeys(spans')
       /\ SpanKeys(spans')
            = SpanKeys(spans) \cup (IF RecordStep THEN {StepKey} ELSE {})
       /\ pc' = "done" =>
             /\ Len(output'[1].rows) = Cardinality(SpanKeys(spans'))
             /\ {RowKey(output'[1].rows[i]) : i \in 1..Len(output'[1].rows)}
                  = SpanKeys(spans')]_vars

\* A report of two rows after three recorded events: one key came twice,
\* the other one in between.
C15_Witness ==
    /\ pc = "done"
    /\ LastRecorded
    /\ number_of_matched_lines = 3
    /\ Len(output[1].rows) = 2
    /\ \E k \in SpanKeys(spans) :
          k # LastKey /\ k[1] = LastKey[1] /\ SpanAt(spans, LastKey).duration > 0

\* The smaller and the larger of two instants.
Min(a, b) == IF a <= b THEN a ELSE b

Max(a, b) == IF a >= b THEN a ELSE b

(***************************************************************************)
(* C16. Recording an event makes the tracked smallest timestamp the minimum *)
(* of itself and the event's timestamp, and the tracked largest one the     *)
(* maximum (the first event sets both; an event equal to a bound leaves it),*)
(* and no other step changes them: they are the minimum and the maximum of  *)
(* the timestamps recorded. The total timeline duration of the report is    *)
(* the largest minus the smallest, in milliseconds, and is never negative.  *)
(***************************************************************************)
C16_TrackedMinAndMax ==
    [][/\ RecordStep =>
             /\ smallest_start_at'
                  = Some(IF smallest_start_at = None THEN StepEvent.date_time
                         ELSE Min(smallest_start_at[1], StepEvent.date_time))
             /\ largest_end_at'
                  = Some(IF largest_end_at = None THEN StepEvent.date_time
                         ELSE Max(largest_end_at[1], StepEvent.date_time))
       /\ ~RecordStep =>
             /\ smallest_start_at' = smallest_start_at
             /\ largest_end_at' = largest_end_at
       /\ (smallest_start_at' = None) = (largest_end_at' = None)
       /\ smallest_start_at' # None =>
             /\ smallest_start_at'[1] <= largest_end_at'[1]
             /\ Report(spans', smallest_start_at', largest_end_at').end_at
                  = TimestampMillis(largest_end_at'[1])
                      - TimestampMillis(smallest_start_at'[1])
       /\ Report(spans', smallest_start_at', largest_end_at').end_at >= 0
       /\ pc' = "done" =>
             output'[1].end_at
               = Report(spans', smallest_start_at', largest_end_at').end_at]_vars

\* Three events were recorded; the last one is at the smallest timestamp,
\* which an earlier event had set, and the largest one is later.
C16_Witness ==
    /\ LastRecorded
    /\ number_of_matched_lines = 3
    /\ SpanAt(spans, LastKey).start_at = LastEvent.date_time
    /\ SpanAt(spans, LastKey).duration = 0
    /\ \E k \in SpanKeys(spans) :
          k # LastKey /\ SpanAt(spans, k).start_at = LastEvent.date_time
    /\ smallest_start_at = Some(LastEvent.date_time)
    /\ largest_end_at[1] > smallest_start_at[1]

(***************************************************************************)
(* C17. Every run ends: it completes or it aborts. The report is written    *)
(* once, by the step that completes the run, together with the summary,     *)
(* when every line of the file has been read, and no line is read after it; *)
(* a run that aborted, on a read error or otherwise, has written no report  *)
(* and printed no summary.                                                  *)
(***************************************************************************)
C17_EndsAndWritesOnceAtTheEnd ==
    /\ <>(pc \in {"done", "panicked"})
    /\ [](output # None =>
             /\ pc = "done" /\ summary # None
             /\ number_of_analysed_lines = log_lines)
    /\ [](pc = "panicked" => output = None /\ summary = None)
    /\ [][/\ output' # output =>
                output = None /\ pc = "reading" /\ pc' = "done"
          /\ summary' # summary => output' # output
          /\ ReadStep => output = None /\ output' = None
          /\ pc # "reading" => UNCHANGED vars]_vars

\* A run that aborted on a read error after it had recorded two lines: the
\* last line read was recorded, and nothing is written.
C17_Witness ==
    /\ pc = "panicked"
    /\ LastRecorded
    /\ number_of_analysed_lines = 2
    /\ number_of_matched_lines = 2
    /\ output = None /\ summary = None

(***************************************************************************)
(* C18. In the report of every store, whatever the order the events came    *)
(* in (the timestamps of a key may decrease, which makes its duration       *)
(* negative), the end of each bar, its normalized start offset plus its     *)
(* duration, is at least 0 and at most the total timeline duration; the     *)
(* report written is that report.                                           *)
(***************************************************************************)
C18_BarInsideCanvas ==
    /\ \A i \in 1..Len(CurrentReport.rows) :
          /\ 0 <= CurrentReport.rows[i].start_at + CurrentReport.rows[i].duration
          /\ CurrentReport.rows[i].start_at + CurrentReport.rows[i].duration
               <= CurrentReport.end_at
    /\ pc = "done" => output[1].rows = CurrentReport.rows
                      /\ output[1].end_at = CurrentReport.end_at

\* A written report with a bar of negative duration (the last event of its
\* key is earlier than the first) that starts at the end of the timeline.
C18_Witness ==
    /\ pc = "done"
    /\ output[1].end_at = 1
    /\ \E i \in 1..Len(output[1].rows) :
          /\ output[1].rows[i].duration < 0
          /\ output[1].rows[i].start_at = 1
          /\ output[1].rows[i].start_at + output[1].rows[i].duration = 0

(***************************************************************************)
(* C19. In every state: lines matched <= lines read <= lines of the log     *)
(* file; the store has at most as many spans as lines matched; every        *)
(* connection of the store has at least one span. When the run has          *)
(* completed, the lines read are the lines of the file, and the summary     *)
(* shows the two counters.                                                  *)
(***************************************************************************)
C19_CountersAndStoreSize ==
    /\ number_of_matched_lines <= number_of_analysed_lines
    /\ number_of_analysed_lines <= log_lines
    /\ Cardinality(SpanKeys(spans)) <= number_of_matched_lines
    /\ \A i \in 1..Len(spans) : Len(spans[i].value) >= 1
    /\ pc = "done" =>
          /\ number_of_analysed_lines = log_lines
          /\ summary = Some([analysed |-> number_of_analysed_lines,
                             matched |-> number_of_matched_lines])

\* A completed run over a file of three lines, two of them matched, for one
\* key: every inequality is strict but the last.
C19_Witness ==
    /\ pc = "done"
    /\ log_lines = 3
    /\ number_of_analysed_lines = 3
    /\ number_of_matched_lines = 2
    /\ Cardinality(SpanKeys(spans)) = 1

====
